---- MODULE Spec2Model ----
(***************************************************************************)
(* The tool-protocol (MCP) client of ChatSWE: MCPClient (lib/mcp-client),  *)
(* MCPProxy and MCPSupergatewayClient (mcp-proxy / mcp-supergateway) and   *)
(* the tool cache of the /api/mcp route.                                   *)
(*                                                                         *)
(* One JSON-RPC message is a record of the properties the code reads from  *)
(* it.  A stdout chunk is taken to carry one line; a chunk that is not one *)
(* whole JSON document is a message with parses = FALSE.                   *)
(***************************************************************************)
EXTENDS Naturals, Integers, Sequences, FiniteSets, TLC

\* ---------------------------------------------------------------- bounds
\* stdout chunks delivered to one subprocess invocation
MaxMsgs == 3
\* descriptors in one tools/list response
MaxTools == 2
\* clock advances in the route model
MaxTicks == 3
\* requests handled in the route model
MaxReqs == 3

\* ------------------------------------------------------------------ state
VARIABLES
  op,         \* the public operation under way ("none" before it starts)
  pc,         \* where it is suspended: "idle", "fetch1", "fetchInit",
              \* "fetch2", "direct", "sub", "done"
  client,     \* the MCPClient's fields
  httpLog,    \* Direct Transport requests sent, each with what came back
  sess,       \* the subprocess invocation under way
  ret,        \* the promise the public operation returned
  toolsCache, \* route.ts toolsCache
  now,        \* Date.now()
  ticks,      \* clock advances so far
  nReq,       \* requests received so far
  mc,         \* the global mcpClient of mcp-client.ts
  reqs,       \* GET requests suspended in initializeMCPClient
  lastDisc,   \* the last fresh discovery that returned tools, while no
              \* later request has cleared the cache
  last,       \* the last response the route sent
  openES,     \* EventSource objects opened by connectSSE and not closed
  opensSSE    \* initialize() reaches connectSSE (the endpoint is not of the
              \* stateful pattern) and the runtime has an EventSource
              \* constructor; fixed for the life of the process

clientVars == <<op, pc, client, httpLog, sess, ret>>
routeVars == <<toolsCache, now, ticks, nReq, mc, reqs, lastDisc, last, openES,
              opensSSE>>
vars == <<op, pc, client, httpLog, sess, ret,
          toolsCache, now, ticks, nReq, mc, reqs, lastDisc, last, openES, opensSSE>>

\* ------------------------------------------------------------- data model
DefaultDescription == "No description available"
DefaultSchema == [type |-> "object", properties |-> {}, required |-> <<>>]
QuerySchema == [type |-> "object", properties |-> {"query"}, required |-> <<"query">>]

\* Remote tool descriptors: description / inputSchema may be absent.
Descriptor(n, hd, d, hs, s) ==
  [name |-> n, hasDesc |-> hd, description |-> d, hasSchema |-> hs, inputSchema |-> s]
dSearch == Descriptor("search", TRUE, "Web search", FALSE, DefaultSchema)
dFetch == Descriptor("fetch", FALSE, "", TRUE, QuerySchema)
Descriptors == {dSearch, dFetch}

RECURSIVE SeqsUpTo(_, _)
SeqsUpTo(S, n) ==
  IF n = 0 THEN {<<>>}
  ELSE LET shorter == SeqsUpTo(S, n - 1)
       IN shorter \cup {Append(s, x) : s \in {t \in shorter : Len(t) = n - 1}, x \in S}

ToolLists == SeqsUpTo(Descriptors, MaxTools)

TextBlock(t) == [type |-> "text", text |-> t]
Echoes == {"hello"}
ErrMsgs == {"Unknown tool", "Server not initialized", ""}

\* A JSON-RPC message as the code sees it.
\*   parses     JSON.parse of the chunk / line succeeds
\*   marker     the text contains "jsonrpc":"2.0" verbatim
\*   hasId      response.id is truthy
\*   res        "none" (no truthy result), "str" (a string) or "obj"
\*   pv         result.protocolVersion is truthy
\*   hasTools   result.tools is truthy;  tools: its descriptors
\*   hasCaps    result.capabilities.tools is truthy; caps: its entries by key
\*   hasContent result.content is truthy; contentArr: it is an array
\*   hasError   error is truthy; errMsg: error.message ("" when missing)
Msg(p, mk, id, r, s, pv, ht, ts, hc, cs, hco, ca, co, he, em) ==
  [parses |-> p, marker |-> mk, hasId |-> id, res |-> r, str |-> s, pv |-> pv,
   hasTools |-> ht, tools |-> ts, hasCaps |-> hc, caps |-> cs,
   hasContent |-> hco, contentArr |-> ca, content |-> co,
   hasError |-> he, errMsg |-> em]

mBad == Msg(FALSE, TRUE, FALSE, "none", "", FALSE, FALSE, <<>>, FALSE, <<>>, FALSE, FALSE, <<>>, FALSE, "")
mNotif == Msg(TRUE, TRUE, FALSE, "none", "", FALSE, FALSE, <<>>, FALSE, <<>>, FALSE, FALSE, <<>>, FALSE, "")
mInit == Msg(TRUE, TRUE, TRUE, "obj", "", TRUE, FALSE, <<>>, FALSE, <<>>, FALSE, FALSE, <<>>, FALSE, "")
mInitCaps(ts) == Msg(TRUE, TRUE, TRUE, "obj", "", TRUE, FALSE, <<>>, TRUE, ts, FALSE, FALSE, <<>>, FALSE, "")
mTools(ts) == Msg(TRUE, TRUE, TRUE, "obj", "", FALSE, TRUE, ts, FALSE, <<>>, FALSE, FALSE, <<>>, FALSE, "")
mContent(e) == Msg(TRUE, TRUE, TRUE, "obj", "", FALSE, FALSE, <<>>, FALSE, <<>>, TRUE, TRUE, <<TextBlock(e)>>, FALSE, "")
mBare == Msg(TRUE, TRUE, TRUE, "obj", "", FALSE, FALSE, <<>>, FALSE, <<>>, FALSE, FALSE, <<>>, FALSE, "")
mStr == Msg(TRUE, TRUE, TRUE, "str", "pong", FALSE, FALSE, <<>>, FALSE, <<>>, FALSE, FALSE, <<>>, FALSE, "")
mErr(m) == Msg(TRUE, TRUE, TRUE, "none", "", FALSE, FALSE, <<>>, FALSE, <<>>, FALSE, FALSE, <<>>, TRUE, m)

\* String.prototype.includes
Includes(s, sub) ==
  \E i \in 1..(Len(s) + 1 - Len(sub)) : SubSeq(s, i, i + Len(sub) - 1) = sub

\* --------------------------------------------------------- JSON.stringify
RECURSIVE JoinBlocks(_, _, _)
JoinBlocks(blocks, i, pretty) ==
  IF i > Len(blocks) THEN ""
  ELSE (IF pretty
        THEN "\n    {\n      \"type\": \"text\",\n      \"text\": \"" \o blocks[i].text \o "\"\n    }"
        ELSE "{\"type\":\"text\",\"text\":\"" \o blocks[i].text \o "\"}")
       \o (IF i < Len(blocks) THEN "," ELSE "")
       \o JoinBlocks(blocks, i + 1, pretty)

RECURSIVE JoinNames(_, _)
JoinNames(ts, i) ==
  IF i > Len(ts) THEN ""
  ELSE "{\"name\":\"" \o ts[i].name \o "\"}" \o (IF i < Len(ts) THEN "," ELSE "")
       \o JoinNames(ts, i + 1)

\* JSON.stringify(result) (pretty = FALSE) and JSON.stringify(result, null, 2)
\* (pretty = TRUE) of an object result.  Tool descriptors are rendered by name.
StringifyResult(m, pretty) ==
  LET nl == IF pretty THEN "\n  " ELSE ""
      sp == IF pretty THEN " " ELSE ""
      end == IF pretty THEN "\n" ELSE ""
  IN CASE m.hasContent ->
            "{" \o nl \o "\"content\":" \o sp \o "[" \o JoinBlocks(m.content, 1, pretty)
                \o (IF pretty /\ m.content # <<>> THEN "\n  " ELSE "") \o "]" \o end \o "}"
       [] m.hasTools ->
            "{" \o nl \o "\"tools\":" \o sp \o "[" \o JoinNames(m.tools, 1) \o "]" \o end \o "}"
       [] m.pv ->
            "{" \o nl \o "\"protocolVersion\":" \o sp \o "\"2024-11-05\"" \o end \o "}"
       [] OTHER ->
            "{" \o nl \o "\"status\":" \o sp \o "\"ok\"" \o end \o "}"

\* typeof result === 'string' ? result : JSON.stringify(result[, null, 2])
ResultText(m, pretty) == IF m.res = "str" THEN m.str ELSE StringifyResult(m, pretty)

\* The text of one stdout line, as accumulated in runMCPRemote's `stdout`.
RawText(m) ==
  IF ~m.parses THEN "{\"jsonrpc\":\"2.0\",\"resu"
  ELSE "{\"jsonrpc\":\"2.0\""
       \o (IF m.hasId THEN ",\"id\":1" ELSE ",\"method\":\"notifications/message\"")
       \o (IF m.res = "str" THEN ",\"result\":\"" \o m.str \o "\""
           ELSE IF m.res = "obj" THEN ",\"result\":" \o StringifyResult(m, FALSE) ELSE "")
       \o (IF m.hasError THEN ",\"error\":{\"message\":\"" \o m.errMsg \o "\"}" ELSE "")
       \o "}"

RECURSIVE JoinRaw(_, _)
JoinRaw(ms, i) ==
  IF i > Len(ms) THEN "" ELSE RawText(ms[i]) \o "\n" \o JoinRaw(ms, i + 1)

\* ------------------------------------------------------------ ToolResult
ToolResult(content, isError) == [content |-> content, isError |-> isError]
TextResult(t, isError) == ToolResult(<<TextBlock(t)>>, isError)
NoResult == ToolResult(<<>>, FALSE)

\* Array.isArray(content) ? content : [content].  A non-array content is
\* held as the one-element sequence of that object.
ContentArray(m) == m.content

\* error.message || 'Unknown error'
ErrorMessageOr(m) == IF m.errMsg # "" THEN m.errMsg ELSE "Unknown error"

\* --------------------------------------------------- tool descriptor maps
Tool(n, d, s) == [name |-> n, description |-> d, inputSchema |-> s]
DescriptionOr(d) == IF d.hasDesc /\ d.description # "" THEN d.description ELSE DefaultDescription
SchemaOr(d) == IF d.hasSchema THEN d.inputSchema ELSE DefaultSchema

\* mcp-client.ts 194-202: the map of the first tools/list response
DirectMapTool(d) == Tool(d.name, DescriptionOr(d), SchemaOr(d))
\* mcp-client.ts 302-310: the map of the second tools/list response
SeparateMapTool(d) == Tool(d.name, DescriptionOr(d), SchemaOr(d))
\* (mutant) the per-key description is copied without the `||` default
CapsMapToolNoDefault(d) == Tool(d.name, d.description, SchemaOr(d))
\* mcp-client.ts 262-270: one Tool per key of capabilities.tools
CapsMapTool(d) == Tool(d.name, DescriptionOr(d), SchemaOr(d))
\* (mutant) the description is copied without the `||` default
RemoteMapToolNoDefault(d) == Tool(d.name, d.description, SchemaOr(d))
\* mcp-supergateway 367-375: the map of the subprocess tools/list response
RemoteMapTool(d) == Tool(d.name, DescriptionOr(d), SchemaOr(d))

DirectMapTools(ts) == [i \in 1..Len(ts) |-> DirectMapTool(ts[i])]
SeparateMapTools(ts) == [i \in 1..Len(ts) |-> SeparateMapTool(ts[i])]
CapsMapTools(ts) == [i \in 1..Len(ts) |-> CapsMapTool(ts[i])]
RemoteMapTools(ts) == [i \in 1..Len(ts) |-> RemoteMapTool(ts[i])]

\* ------------------------------------------------------------- promises
Pending == [st |-> "pending", tools |-> <<>>, result |-> NoResult, err |-> ""]
ResolvedTools(ts) == [st |-> "resolved", tools |-> ts, result |-> NoResult, err |-> ""]
ResolvedResult(r) == [st |-> "resolved", tools |-> <<>>, result |-> r, err |-> ""]
Rejected(e) == [st |-> "rejected", tools |-> <<>>, result |-> NoResult, err |-> e]
\* resolve / reject settle a promise once; later calls change nothing
Settle(p, v) == IF p.st = "pending" THEN v ELSE p

SpawnErrorText == "spawn npx ENOENT"
ExitCodes == {"0", "1", "null"}

\* ------------------------------------------- one subprocess invocation
\*   kind            "disc" discoverToolsViaMCPRemote, "exec"
\*                   executeToolViaMCPRemote, "proxy" MCPProxy.runMCPRemote
\*   proc            "running", "exited" (exit / close delivered), "failed"
\*                   ('error' delivered)
\*   killed          process.kill() has signalled the process
\*   timer           "armed", "cleared" (clearTimeout) or "fired"
\*   responded       `responded` (`resolved` in runMCPRemote)
\*   initialized, toolsRequested   the locals of those names
\*   stdinW          writes to process.stdin; `after` is the number of stdout
\*                   chunks delivered before the write
\*   nOut, pvAt      chunks delivered; index of the first one whose
\*                   result.protocolVersion is present (0: none yet)
\*   stdout          runMCPRemote's accumulated `stdout`, by line (kept while
\*                   the handlers can still read it: until `resolved`)
\*   lastList        the descriptors of the last tools/list result delivered
\*                   before the promise settled
\*   promise         the promise the invocation returned
\*   doneBy          the event that settled it
\*   nResolve        calls of resolve / reject so far
NoSess ==
  [kind |-> "none", proc |-> "none", killed |-> FALSE, timer |-> "none",
   responded |-> FALSE, initialized |-> FALSE, toolsRequested |-> FALSE,
   stdinW |-> <<>>, nOut |-> 0, pvAt |-> 0, stdout |-> <<>>, lastList |-> <<>>,
   promise |-> Pending, doneBy |-> "none", nResolve |-> 0]

\* id: Date.now() when the request is built
Write(s, method) ==
  [s EXCEPT !.stdinW = Append(@, [method |-> method, after |-> s.nOut, id |-> now])]
\* process.kill(): signals a process that has not exited
Kill(s) == IF s.proc = "running" THEN [s EXCEPT !.killed = TRUE] ELSE s
ClearTimeout(s) == IF s.timer = "armed" THEN [s EXCEPT !.timer = "cleared"] ELSE s
Resolve(s, v, by) ==
  [s EXCEPT !.promise = Settle(@, v),
            !.doneBy = IF s.promise.st = "pending" THEN by ELSE @,
            !.nResolve = @ + 1]

\* The synchronous part of the promise executor: spawn, arm the timer,
\* register the handlers, write the initialize request.
Spawned(kind) ==
  Write([NoSess EXCEPT !.kind = kind, !.proc = "running", !.timer = "armed"], "initialize")

\* A stdout chunk arrives (before the handler runs).
Deliver(s, m) ==
  [s EXCEPT !.nOut = @ + 1,
            !.pvAt = IF @ = 0 /\ m.parses /\ m.res = "obj" /\ m.pv THEN s.nOut + 1 ELSE @,
            !.lastList = IF s.promise.st = "pending" /\ m.parses /\ m.hasTools
                         THEN m.tools ELSE @]

\* ---- MCPSupergatewayClient.discoverToolsViaMCPRemote
\* (mutant) the timeout kills the process and forgets to resolve
DiscTimeoutNoResolve(s) ==
  LET f == [s EXCEPT !.timer = "fired"]
  IN IF ~f.responded THEN Kill([f EXCEPT !.responded = TRUE]) ELSE f

DiscTimeout(s) ==
  LET f == [s EXCEPT !.timer = "fired"]
  IN IF ~f.responded
     THEN Resolve(Kill([f EXCEPT !.responded = TRUE]), ResolvedTools(<<>>), "timeout")
     ELSE f

\* (mutant) every initialize response triggers a tools/list request
DiscStdoutRewrites(s, m) ==
  IF ~m.parses THEN s
  ELSE IF m.res # "none" /\ m.pv
  THEN [Write([s EXCEPT !.initialized = TRUE], "tools/list") EXCEPT !.toolsRequested = TRUE]
  ELSE IF s.toolsRequested /\ m.res # "none" /\ m.hasTools /\ ~s.responded
  THEN Resolve(Kill(ClearTimeout([s EXCEPT !.responded = TRUE])),
               ResolvedTools(RemoteMapTools(m.tools)), "response")
  ELSE s

DiscStdout(s, m) ==
  IF ~m.parses THEN s
  ELSE IF ~s.initialized /\ m.res # "none" /\ m.pv
  THEN [Write([s EXCEPT !.initialized = TRUE], "tools/list") EXCEPT !.toolsRequested = TRUE]
  ELSE IF s.toolsRequested /\ m.res # "none" /\ m.hasTools /\ ~s.responded
  THEN Resolve(Kill(ClearTimeout([s EXCEPT !.responded = TRUE])),
               ResolvedTools(RemoteMapTools(m.tools)), "response")
  ELSE s

DiscExit(s, code) ==
  LET e == [s EXCEPT !.proc = "exited"]
  IN IF ~e.responded
     THEN Resolve(ClearTimeout([e EXCEPT !.responded = TRUE]), ResolvedTools(<<>>), "exit")
     ELSE e

DiscError(s) ==
  LET e == [s EXCEPT !.proc = "failed"]
  IN IF ~e.responded
     THEN Resolve(ClearTimeout([e EXCEPT !.responded = TRUE]), Rejected(SpawnErrorText), "error")
     ELSE e

\* ---- MCPSupergatewayClient.executeToolViaMCPRemote
ExecTimeout(s) ==
  LET f == [s EXCEPT !.timer = "fired"]
  IN IF ~f.responded
     THEN Resolve(Kill([f EXCEPT !.responded = TRUE]),
                  ResolvedResult(TextResult("Tool execution timeout", TRUE)), "timeout")
     ELSE f

ExecResponse(m) ==
  IF m.hasError
  THEN TextResult("Tool execution error: " \o ErrorMessageOr(m), TRUE)
  ELSE IF m.res # "none"
  THEN (IF m.hasContent THEN ToolResult(ContentArray(m), FALSE)
        ELSE TextResult(ResultText(m, TRUE), FALSE))
  ELSE TextResult("No result returned from tool execution", TRUE)

ExecStdout(s, m) ==
  IF ~m.parses THEN s
  ELSE IF ~s.initialized /\ m.res # "none" /\ m.pv
  THEN Write([s EXCEPT !.initialized = TRUE], "tools/call")
  ELSE IF s.initialized /\ ~s.responded
  THEN Resolve(Kill(ClearTimeout([s EXCEPT !.responded = TRUE])),
               ResolvedResult(ExecResponse(m)), "response")
  ELSE s

\* (mutant) the exit handler resolves and leaves the timer running
ExecExitKeepsTimer(s, code) ==
  LET e == [s EXCEPT !.proc = "exited"]
  IN IF ~e.responded
     THEN Resolve([e EXCEPT !.responded = TRUE],
                  ResolvedResult(TextResult("Tool execution failed with exit code: " \o code, TRUE)),
                  "exit")
     ELSE e

ExecExit(s, code) ==
  LET e == [s EXCEPT !.proc = "exited"]
  IN IF ~e.responded
     THEN Resolve(ClearTimeout([e EXCEPT !.responded = TRUE]),
                  ResolvedResult(TextResult("Tool execution failed with exit code: " \o code, TRUE)),
                  "exit")
     ELSE e

ExecError(s) ==
  LET e == [s EXCEPT !.proc = "failed"]
  IN IF ~e.responded
     THEN Resolve(ClearTimeout([e EXCEPT !.responded = TRUE]), Rejected(SpawnErrorText), "error")
     ELSE e

\* ---- MCPProxy.runMCPRemote
ProxyTimeout(s) ==
  LET f == [s EXCEPT !.timer = "fired"]
  IN IF ~f.killed /\ ~f.responded
     THEN Resolve(Kill([f EXCEPT !.responded = TRUE]),
                  ResolvedResult(TextResult(
                    "MCP execution timed out - no response received from n8n server", TRUE)),
                  "timeout")
     ELSE f

\* result.content passed through, or the result as compact JSON text
ProxyResponse(m) ==
  IF m.hasContent THEN ToolResult(ContentArray(m), FALSE)
  ELSE TextResult(ResultText(m, FALSE), FALSE)

\* (mutant) the tool call is sent on the first result of any kind
ProxyStdoutNoHandshake(s, m) ==
  LET a == IF s.responded THEN s ELSE [s EXCEPT !.stdout = Append(@, m)]
  IN IF ~(m.marker /\ ~a.responded) THEN a
     ELSE IF ~m.parses THEN a
     ELSE IF ~a.initialized /\ m.res # "none"
     THEN Write([a EXCEPT !.initialized = TRUE], "tools/call")
     ELSE IF a.initialized /\ m.res # "none" /\ m.hasId
     THEN Resolve(Kill(ClearTimeout([a EXCEPT !.responded = TRUE])),
                  ResolvedResult(ProxyResponse(m)), "response")
     ELSE a

ProxyStdout(s, m) ==
  LET a == IF s.responded THEN s ELSE [s EXCEPT !.stdout = Append(@, m)]
  IN IF ~(m.marker /\ ~a.responded) THEN a
     ELSE IF ~m.parses THEN a
     ELSE IF ~a.initialized /\ m.res # "none" /\ m.pv
     THEN Write([a EXCEPT !.initialized = TRUE], "tools/call")
     ELSE IF a.initialized /\ m.res # "none" /\ m.hasId
     THEN Resolve(Kill(ClearTimeout([a EXCEPT !.responded = TRUE])),
                  ResolvedResult(ProxyResponse(m)), "response")
     ELSE a

\* The 'close' handler's scan of the accumulated stdout: the first line with
\* the marker and a result decides; a line that does not parse ends the scan.
RECURSIVE CloseScan(_, _)
CloseScan(lines, i) ==
  IF i > Len(lines) THEN [found |-> FALSE, result |-> NoResult]
  ELSE IF ~lines[i].marker THEN CloseScan(lines, i + 1)
  ELSE IF ~lines[i].parses THEN [found |-> FALSE, result |-> NoResult]
  ELSE IF lines[i].res # "none" THEN [found |-> TRUE, result |-> ProxyResponse(lines[i])]
  ELSE CloseScan(lines, i + 1)

CloseFallback(s, code) ==
  TextResult("MCP execution completed with code " \o code \o ". Output: "
               \o (IF s.stdout # <<>> THEN JoinRaw(s.stdout, 1) ELSE "No output"),
             code # "0")

\* (mutant) the close handler does not look at `resolved`
ProxyCloseUnguarded(s, code) ==
  LET e == [s EXCEPT !.proc = "exited"]
      scan == IF code = "0" /\ e.stdout # <<>> THEN CloseScan(e.stdout, 1)
              ELSE [found |-> FALSE, result |-> NoResult]
  IN Resolve(ClearTimeout([e EXCEPT !.responded = TRUE]),
             ResolvedResult(IF scan.found THEN scan.result ELSE CloseFallback(e, code)),
             "exit")

ProxyClose(s, code) ==
  LET e == [s EXCEPT !.proc = "exited"]
      scan == IF code = "0" /\ e.stdout # <<>> THEN CloseScan(e.stdout, 1)
              ELSE [found |-> FALSE, result |-> NoResult]
  IN IF e.responded THEN e
     ELSE Resolve(ClearTimeout([e EXCEPT !.responded = TRUE]),
                  ResolvedResult(IF scan.found THEN scan.result ELSE CloseFallback(e, code)),
                  "exit")

ProxyError(s) ==
  LET e == [s EXCEPT !.proc = "failed"]
  IN IF e.responded THEN e
     ELSE Resolve(ClearTimeout([e EXCEPT !.responded = TRUE]),
                  ResolvedResult(TextResult("MCP Process Error: " \o SpawnErrorText, TRUE)),
                  "error")

\* MCPProxy.executeToolCall: awaits runMCPRemote; a rejection (spawn throwing
\* inside the executor) becomes an error ToolResult.
ExecuteToolCall(p) ==
  IF p.st = "rejected"
  THEN ResolvedResult(TextResult("MCP Proxy Error: " \o p.err, TRUE))
  ELSE p

\* -------------------------------------------------------- Direct Transport
\* One line of a response body: `data` is line.startsWith('data: ');
\* msg is what follows the prefix.
DataLine(m) == [data |-> TRUE, msg |-> m]
PlainLine == [data |-> FALSE, msg |-> mNotif]

\* What a fetch yields: it rejects ("neterr"), answers a non-2xx status
\* ("status"), or answers 2xx with a body ("ok").
NetErr == [kind |-> "neterr", body |-> <<>>]
Status500 == [kind |-> "status", body |-> <<>>]
Ok(body) == [kind |-> "ok", body |-> body]

Threw(e) == [threw |-> TRUE, err |-> e, msg |-> mNotif, result |-> NoResult]
Parsed(m) == [threw |-> FALSE, err |-> "", msg |-> m, result |-> NoResult]
Returned(r) == [threw |-> FALSE, err |-> "", msg |-> mNotif, result |-> r]

\* parseSSEResponse: JSON.parse of the first line starting with "data: "
RECURSIVE ParseSSEFrom(_, _)
ParseSSEFrom(body, i) ==
  IF i > Len(body) THEN Threw("No data found in SSE response")
  ELSE IF body[i].data
  THEN (IF body[i].msg.parses THEN Parsed(body[i].msg) ELSE Threw("Unexpected token"))
  ELSE ParseSSEFrom(body, i + 1)

parseSSEResponse(body) == ParseSSEFrom(body, 1)

\* executeToolDirectly's loop over the lines of the body
RECURSIVE ExecLines(_, _)
ExecLines(body, i) ==
  IF i > Len(body) THEN Threw("No valid data found in SSE response")
  ELSE IF ~body[i].data THEN ExecLines(body, i + 1)
  ELSE IF ~body[i].msg.parses THEN Threw("Unexpected token")
  ELSE IF body[i].msg.hasError
  THEN Returned(TextResult("Tool execution error: " \o ErrorMessageOr(body[i].msg), TRUE))
  ELSE IF body[i].msg.res # "none"
  THEN Returned(TextResult(ResultText(body[i].msg, TRUE), FALSE))
  ELSE ExecLines(body, i + 1)

executeToolDirectly(h) ==
  CASE h.kind = "neterr" -> Threw("fetch failed")
    [] h.kind = "status" -> Threw("HTTP 500: Internal Server Error")
    [] OTHER -> ExecLines(h.body, 1)

\* Direct Transport discovery (MCPClient.discoverTools), one step per await.
\* Each step yields [done, tools]: done = FALSE moves on to the next request.
Step(done, tools) == [done |-> done, tools |-> tools]

\* lines 172-213: the first tools/list; every failure falls through
DirectToolsStep(h) ==
  IF h.kind # "ok" THEN Step(FALSE, <<>>)
  ELSE LET d == parseSSEResponse(h.body)
       IN IF ~d.threw /\ d.msg.res # "none" /\ d.msg.hasTools
          THEN Step(TRUE, DirectMapTools(d.msg.tools))
          ELSE Step(FALSE, <<>>)

\* (mutant) discovery gives up when initialize declares no tools
InitStepNoRetry(h) ==
  IF h.kind # "ok" THEN Step(TRUE, <<>>)
  ELSE LET d == parseSSEResponse(h.body)
       IN IF ~d.threw /\ d.msg.res # "none" /\ d.msg.hasCaps /\ Len(d.msg.caps) > 0
          THEN Step(TRUE, CapsMapTools(d.msg.caps))
          ELSE Step(TRUE, <<>>)

\* lines 217-275: initialize; a failure ends discovery with []
InitStep(h) ==
  IF h.kind # "ok" THEN Step(TRUE, <<>>)
  ELSE LET d == parseSSEResponse(h.body)
       IN IF d.threw THEN Step(TRUE, <<>>)
          ELSE IF d.msg.res # "none" /\ d.msg.hasCaps /\ Len(d.msg.caps) > 0
          THEN Step(TRUE, CapsMapTools(d.msg.caps))
          ELSE Step(FALSE, <<>>)

\* lines 279-327: the second tools/list
SeparateToolsStep(h) ==
  IF h.kind # "ok" THEN Step(TRUE, <<>>)
  ELSE LET d == parseSSEResponse(h.body)
       IN IF ~d.threw /\ d.msg.res # "none" /\ d.msg.hasTools
          THEN Step(TRUE, SeparateMapTools(d.msg.tools))
          ELSE Step(TRUE, <<>>)

\* What the client saw of a response, kept with the request in httpLog.
NoResp == [kind |-> "pending", msg |-> mNotif]
Seen(h) ==
  IF h.kind # "ok" THEN [kind |-> h.kind, msg |-> mNotif]
  ELSE LET d == parseSSEResponse(h.body)
       IN IF d.threw THEN [kind |-> "undecodable", msg |-> mNotif]
          ELSE [kind |-> "msg", msg |-> d.msg]

\* ------------------------------------------------------ environment inputs
CapLists == {<<>>, <<dSearch>>, <<dFetch>>, <<dSearch, dFetch>>, <<dFetch, dSearch>>}
ListMsgs ==
  {mBad, mNotif, mInit} \cup {mErr(e) : e \in ErrMsgs}
    \cup {mTools(ts) : ts \in ToolLists} \cup {mInitCaps(ts) : ts \in CapLists}
CallMsgs ==
  {mBad, mNotif, mInit, mBare, mStr} \cup {mErr(e) : e \in {"Unknown tool", ""}}
    \cup {mContent(e) : e \in Echoes}
\* a second data line of a body
TrailMsgs == {mContent("late"), mErr("late"), mTools(<<dFetch>>)}
Bodies(msgs) ==
  {<<>>, <<PlainLine>>}
    \cup {<<DataLine(m)>> : m \in msgs}
    \cup {<<PlainLine, DataLine(m)>> : m \in msgs}
    \cup {<<DataLine(m), DataLine(t)>> : m \in msgs, t \in TrailMsgs}
HttpOutcomes(msgs) == {NetErr, Status500} \cup {Ok(b) : b \in Bodies(msgs)}

SubListMsgs == {mBad, mNotif, mInit, mErr("Unknown tool")} \cup {mTools(ts) : ts \in ToolLists}
\* the same tool result with the members of the envelope spaced apart
mSpaced == [mContent("hello") EXCEPT !.marker = FALSE]
ProxyMsgs == (CallMsgs \ {mErr("")}) \cup {mSpaced}

\* new MCPClient(url): the fields of the constructor and initialisers.
\* sg: supergatewayClient # null; sgInitialized, sessionActive, sgTools: the
\* MCPSupergatewayClient's fields.
NewClient ==
  [tools |-> <<>>, connected |-> FALSE, eventSource |-> "none", sg |-> FALSE,
   sgInitialized |-> FALSE, sessionActive |-> FALSE, sgTools |-> <<>>]

\* MCPSupergatewayClient.isConnected
SgIsConnected(c) == c.sgInitialized /\ c.sessionActive

\* A client that has completed initializeWithSupergateway with tools ts.
AfterSupergateway(ts) ==
  [NewClient EXCEPT !.tools = ts, !.sg = TRUE, !.sgInitialized = TRUE, !.sgTools = ts,
                    !.connected = FALSE]

\* httpLog entries: the method sent and what came back (the status, or the
\* message on the first "data: " line of the body).
Request(method) == [method |-> method, resp |-> NoResp, id |-> now]
Answered(log, h) == [log EXCEPT ![Len(log)].resp = Seen(h)]

\* ---------------------------------------------- continuations of the awaits
\* MCPSupergatewayClient.initialize, then MCPClient.initializeWithSupergateway:
\* a rejected discovery is caught and read as [].  When disconnect() has set
\* supergatewayClient to null in the meantime (~c.sg), line 113 still stores
\* the tools and line 114 throws on the null, which the catch reads as [].
DiscoveredViaSupergateway(c, p) ==
  LET sgc == IF p.st = "resolved"
             THEN [c EXCEPT !.sgTools = p.tools, !.sgInitialized = TRUE]
             ELSE c
      ts == IF p.st = "resolved" THEN p.tools ELSE <<>>
  IN IF c.sg THEN [sgc EXCEPT !.tools = ts, !.connected = SgIsConnected(sgc)]
     ELSE [c EXCEPT !.tools = ts]

\* (mutant) a rejected discovery is passed on to the caller
InitializeResultUncaught(c, p) ==
  IF p.st = "resolved" THEN ResolvedTools(p.tools) ELSE p

\* What MCPClient.initialize returns on the supergateway path
InitializeResult(c, p) ==
  IF c.sg /\ p.st = "resolved" THEN ResolvedTools(p.tools) ELSE ResolvedTools(<<>>)

\* MCPClient.callTool's outer catch (lines 365-374)
CallToolCatch(p) ==
  IF p.st = "rejected"
  THEN ResolvedResult(TextResult("Error calling MCP tool: " \o p.err, TRUE))
  ELSE p

\* (mutant) neither executeToolCall nor callTool catches
CallToolReturnUncaught(kind, p) == p

\* The value callTool returns once the subprocess promise p has settled:
\* through executeMCPToolViaProxy for the proxy, directly for the
\* supergateway client.
CallToolReturn(kind, p) ==
  IF kind = "proxy" THEN CallToolCatch(ExecuteToolCall(p)) ELSE CallToolCatch(p)

\* A handler of the subprocess has run and left the invocation as s2; when it
\* settled the promise, the awaiting caller resumes in the same turn.
SessEvent(s2) ==
  /\ sess' = s2
  /\ IF sess.promise.st = "pending" /\ s2.promise.st # "pending"
     THEN /\ pc' = "done"
          /\ client' = IF op = "discoverSub"
                       THEN DiscoveredViaSupergateway(client, s2.promise) ELSE client
          /\ ret' = CASE op = "discoverSub" -> InitializeResult(client, s2.promise)
                      [] op = "callTool" -> CallToolReturn(s2.kind, s2.promise)
                      [] OTHER -> s2.promise
     ELSE UNCHANGED <<pc, client, ret>>
  /\ UNCHANGED <<op, httpLog, routeVars>>

\* --------------------------------------------------- events of a subprocess
\* stdout data arrives while the process runs and, for the handlers that
\* listen to 'exit', also after it; 'close' follows the end of the streams.
CanStdout(s) ==
  /\ s.nOut < MaxMsgs
  /\ \/ s.proc = "running"
     \/ s.proc = "exited" /\ s.kind # "proxy"
\* 'exit' / 'close' comes once; it may or may not follow an 'error'
CanExit(s) == s.proc \in {"running", "failed"}
\* 'error' is emitted for a process that could not be spawned: it has
\* printed nothing
CanError(s) == s.proc = "running" /\ s.nOut = 0
CanTimeout(s) == s.timer = "armed"

DiscTimeoutFires == sess.kind = "disc" /\ CanTimeout(sess) /\ SessEvent(DiscTimeout(sess))
DiscStdoutData ==
  /\ sess.kind = "disc" /\ CanStdout(sess)
  /\ \E m \in SubListMsgs : SessEvent(DiscStdout(Deliver(sess, m), m))
DiscProcessExit ==
  /\ sess.kind = "disc" /\ CanExit(sess)
  /\ \E code \in ExitCodes : SessEvent(DiscExit(sess, code))
DiscProcessError == sess.kind = "disc" /\ CanError(sess) /\ SessEvent(DiscError(sess))

ExecTimeoutFires == sess.kind = "exec" /\ CanTimeout(sess) /\ SessEvent(ExecTimeout(sess))
ExecStdoutData ==
  /\ sess.kind = "exec" /\ CanStdout(sess)
  /\ \E m \in CallMsgs : SessEvent(ExecStdout(Deliver(sess, m), m))
ExecProcessExit ==
  /\ sess.kind = "exec" /\ CanExit(sess)
  /\ \E code \in ExitCodes : SessEvent(ExecExit(sess, code))
ExecProcessError == sess.kind = "exec" /\ CanError(sess) /\ SessEvent(ExecError(sess))

ProxyTimeoutFires == sess.kind = "proxy" /\ CanTimeout(sess) /\ SessEvent(ProxyTimeout(sess))
ProxyStdoutData ==
  /\ sess.kind = "proxy" /\ CanStdout(sess)
  /\ \E m \in ProxyMsgs : SessEvent(ProxyStdout(Deliver(sess, m), m))
ProxyProcessClose ==
  /\ sess.kind = "proxy" /\ CanExit(sess)
  /\ \E code \in ExitCodes : SessEvent(ProxyClose(sess, code))
ProxyProcessError == sess.kind = "proxy" /\ CanError(sess) /\ SessEvent(ProxyError(sess))

\* ------------------------------------------------------ public operations
\* initializeMCPClient on an endpoint that needs a stateful session:
\* new MCPClient, initialize -> initializeWithSupergateway -> spawn.
StartDiscoverSub ==
  /\ pc = "idle"
  /\ op' = "discoverSub"
  /\ \E spawnThrows \in BOOLEAN :
       LET c == [NewClient EXCEPT !.sg = TRUE]
       IN IF spawnThrows
          THEN /\ pc' = "done" /\ UNCHANGED sess
               /\ client' = DiscoveredViaSupergateway(c, Rejected("spawn ENOMEM"))
               /\ ret' = InitializeResult(c, Rejected("spawn ENOMEM"))
          ELSE /\ pc' = "sub" /\ sess' = Spawned("disc")
               /\ client' = c /\ UNCHANGED ret
  /\ UNCHANGED <<httpLog, routeVars>>

\* initializeMCPClient on any other endpoint: connectSSE, then the first
\* tools/list of discoverTools.
StartDiscoverDirect ==
  /\ pc = "idle"
  /\ op' = "discoverDirect" /\ pc' = "fetch1"
  /\ client' = [NewClient EXCEPT !.eventSource = "open"]
  /\ httpLog' = <<Request("tools/list")>>
  /\ UNCHANGED <<sess, ret, routeVars>>

\* MCPClient.initialize after discoverTools returned (lines 85-93)
DirectDiscovered(ts) ==
  /\ pc' = "done"
  /\ client' = [client EXCEPT !.tools = ts, !.connected = TRUE]
  /\ ret' = ResolvedTools(ts)

DirectToolsResponse ==
  /\ pc = "fetch1"
  /\ \E h \in HttpOutcomes(ListMsgs) :
       LET st == DirectToolsStep(h)
       IN IF st.done
          THEN /\ httpLog' = Answered(httpLog, h)
               /\ DirectDiscovered(st.tools)
          ELSE /\ httpLog' = Append(Answered(httpLog, h), Request("initialize"))
               /\ pc' = "fetchInit"
               /\ UNCHANGED <<client, ret>>
  /\ UNCHANGED <<op, sess, routeVars>>

InitializeResponse ==
  /\ pc = "fetchInit"
  /\ \E h \in HttpOutcomes(ListMsgs) :
       LET st == InitStep(h)
       IN IF st.done
          THEN /\ httpLog' = Answered(httpLog, h)
               /\ DirectDiscovered(st.tools)
          ELSE /\ httpLog' = Append(Answered(httpLog, h), Request("tools/list"))
               /\ pc' = "fetch2"
               /\ UNCHANGED <<client, ret>>
  /\ UNCHANGED <<op, sess, routeVars>>

\* (mutant) zero tools from the Direct Transport start a subprocess discovery
SeparateToolsResponseRetriesSub ==
  /\ pc = "fetch2"
  /\ \E h \in HttpOutcomes(ListMsgs) :
       /\ httpLog' = Answered(httpLog, h)
       /\ IF SeparateToolsStep(h).tools = <<>>
          THEN /\ pc' = "sub" /\ sess' = Spawned("disc") /\ UNCHANGED <<client, ret>>
          ELSE /\ DirectDiscovered(SeparateToolsStep(h).tools) /\ UNCHANGED sess
  /\ UNCHANGED <<op, routeVars>>

SeparateToolsResponse ==
  /\ pc = "fetch2"
  /\ \E h \in HttpOutcomes(ListMsgs) :
       /\ httpLog' = Answered(httpLog, h)
       /\ DirectDiscovered(SeparateToolsStep(h).tools)
  /\ UNCHANGED <<op, sess, routeVars>>

\* MCPSupergatewayClient.callTool on a client that discovery has created
StartExecSub ==
  /\ pc = "idle" /\ client.sg
  /\ op' = "execSub" /\ pc' = "sub"
  /\ sess' = Spawned("exec")
  /\ UNCHANGED <<client, httpLog, ret, routeVars>>

\* MCPClient.callTool up to its first await (lines 338-397)
StartCallTool ==
  /\ pc = "idle"
  /\ op' = "callTool"
  /\ IF client.sg /\ SgIsConnected(client)
     THEN /\ pc' = "sub" /\ sess' = Spawned("exec") /\ UNCHANGED httpLog
     ELSE /\ pc' = "direct" /\ httpLog' = <<Request("tools/call")>> /\ UNCHANGED sess
  /\ UNCHANGED <<client, ret, routeVars>>

\* Whether callTool returns what executeToolDirectly returned (line 351)
ReturnsDirect(r) == ~r.threw /\ ~r.result.isError

\* The answer to the direct tools/call: callTool returns the result, or
\* goes on to executeMCPToolViaProxy, whose spawn may itself throw.
DirectCallResponse ==
  /\ pc = "direct"
  /\ \E h \in HttpOutcomes(CallMsgs), spawnThrows \in BOOLEAN :
       LET r == executeToolDirectly(h)
       IN /\ httpLog' = Answered(httpLog, h)
          /\ IF ReturnsDirect(r)
             THEN /\ ~spawnThrows
                  /\ pc' = "done" /\ ret' = ResolvedResult(r.result) /\ UNCHANGED sess
             ELSE IF spawnThrows
             THEN /\ pc' = "done" /\ UNCHANGED sess
                  /\ ret' = CallToolReturn("proxy", Rejected("spawn ENOMEM"))
             ELSE /\ pc' = "sub" /\ sess' = Spawned("proxy") /\ UNCHANGED ret
  /\ UNCHANGED <<op, client, routeVars>>

\* ------------------------------------------------------------ route state
NoCache == [present |-> FALSE, tools |-> <<>>, lastUpdated |-> 0]
\* mc: the global client exists; its tools; es, its eventSource is open
NoClient == [exists |-> FALSE, tools |-> <<>>, es |-> FALSE]
\* last: the response (kind, tools, cached; served: which branch answered;
\* age: Date.now() - lastUpdated of a cache entry that was served).
NoLast ==
  [kind |-> "none", tools |-> <<>>, cached |-> FALSE, served |-> "none", age |-> 0]
NoDisc == [valid |-> FALSE, tools |-> <<>>, at |-> 0]

RouteIdle ==
  /\ toolsCache = NoCache /\ now = 0 /\ ticks = 0 /\ nReq = 0
  /\ mc = NoClient /\ reqs = {} /\ lastDisc = NoDisc /\ last = NoLast
  /\ openES = 0

ClientIdle ==
  /\ op = "none" /\ pc = "idle" /\ httpLog = <<>> /\ sess = NoSess /\ ret = Pending

\* ------------------------------------------------- the client specification
Init ==
  /\ ClientIdle
  /\ client \in {NewClient, AfterSupergateway(RemoteMapTools(<<dSearch>>))}
  /\ RouteIdle /\ opensSSE = FALSE

Next ==
  \/ StartDiscoverSub
  \/ DiscTimeoutFires
  \/ DiscStdoutData
  \/ DiscProcessExit
  \/ DiscProcessError
  \/ StartExecSub
  \/ ExecTimeoutFires
  \/ ExecStdoutData
  \/ ExecProcessExit
  \/ ExecProcessError
  \/ StartDiscoverDirect
  \/ DirectToolsResponse
  \/ InitializeResponse
  \/ SeparateToolsResponse
  \/ StartCallTool
  \/ DirectCallResponse
  \/ ProxyTimeoutFires
  \/ ProxyStdoutData
  \/ ProxyProcessClose
  \/ ProxyProcessError

Spec == Init /\ [][Next]_vars

\* Timers fire: a timeout that stays armed is eventually run.
FairSpec ==
  /\ Init /\ [][Next]_vars
  /\ WF_vars(DiscTimeoutFires) /\ WF_vars(ExecTimeoutFires) /\ WF_vars(ProxyTimeoutFires)

\* ------------------------------------------------------ the route handlers
\* route.ts line 10: 5 * 60 * 1000 ms
CACHE_DURATION == 300000

\* What initializeMCPClient's discovery can come back with.
DiscoveryResults ==
  {<<>>, RemoteMapTools(<<dSearch>>), DirectMapTools(<<dSearch, dFetch>>)}

\* (mutant) the comparison of the age with the duration is the wrong way round
CacheExpiredInverted(c, t) == c.present /\ (t - c.lastUpdated) < CACHE_DURATION
\* (mutant) the age of the entry is never looked at
CacheNeverExpires(c, t) == FALSE

\* line 48: cacheExpired
CacheExpired(c, t) == c.present /\ (t - c.lastUpdated) > CACHE_DURATION
\* line 49: the cache is served
CacheHit(c, t) == ~CacheExpired(c, t) /\ c.present /\ Len(c.tools) > 0

\* lines 32-35, 67-70, 87-90: toolsCache = { tools, lastUpdated: Date.now() }
CacheEntry(ts, t) == [present |-> TRUE, tools |-> ts, lastUpdated |-> t]

\* MCPClient.disconnect on the global client: its eventSource is closed and
\* its tools are emptied
Disconnected(m) == IF m.exists THEN [m EXCEPT !.tools = <<>>, !.es = FALSE] ELSE m
\* the EventSource objects left open once m has been disconnected
AfterClose(m, n) == IF m.exists /\ m.es THEN n - 1 ELSE n
\* initializeMCPClient lines 487-489: a new global client starts
\* initialize(), whose connectSSE opens an EventSource when opensSSE; n is
\* the number open before.
NewGlobalClient(n) ==
  /\ mc' = [exists |-> TRUE, tools |-> <<>>, es |-> opensSSE]
  /\ openES' = IF opensSSE THEN n + 1 ELSE n
\* ... and an initialize() still under way on it has lost its
\* supergatewayClient (dc)
DisconnectInFlight(rs) == {IF r.mine THEN [r EXCEPT !.dc = TRUE] ELSE r : r \in rs}
\* initializeMCPClient line 487: a new client replaces the global one
Orphaned(rs) == {[r EXCEPT !.mine = FALSE] : r \in rs}

\* A GET request: phase, the await it is in ("refresh": line 30, "get":
\* line 84); mine, its client is still the global one; dc, disconnect() was
\* called on its client while initialize() was under way.
Arrival(id, refresh) ==
  [id |-> id, phase |-> IF refresh THEN "refresh" ELSE "get", mine |-> TRUE,
   dc |-> FALSE]

Response(tools, cached, served, age) ==
  [kind |-> "GET", tools |-> tools, cached |-> cached, served |-> served, age |-> age]

\* GET lines 47-84, for request r while the global client is m and the other
\* suspended requests are rest: the cache, else the client's tools, else a
\* new client and its initialize(), where the handler is suspended.
GetFromCache(r, m, rest) ==
  IF CacheHit(toolsCache, now)
  THEN /\ last' = Response(toolsCache.tools, TRUE, "cache", now - toolsCache.lastUpdated)
       /\ mc' = m /\ reqs' = rest
       /\ UNCHANGED <<toolsCache, openES>>
  ELSE IF Len(m.tools) > 0
  THEN /\ toolsCache' = CacheEntry(m.tools, now)
       /\ last' = Response(m.tools, FALSE, "client", 0)
       /\ mc' = m /\ reqs' = rest
       /\ UNCHANGED openES
  ELSE /\ NewGlobalClient(openES)
       /\ reqs' = Orphaned(rest) \cup
                    {[r EXCEPT !.phase = "get", !.mine = TRUE, !.dc = FALSE]}
       /\ UNCHANGED <<toolsCache, last>>

\* GET without refresh, up to its response or its await
Get ==
  /\ nReq < MaxReqs
  /\ nReq' = nReq + 1
  /\ GetFromCache(Arrival(nReq + 1, FALSE), mc, reqs)
  /\ UNCHANGED <<now, ticks, lastDisc, opensSSE, clientVars>>

\* GET ?refresh=true, lines 21-30: disconnect, clear the cache, initialize
GetRefresh ==
  /\ nReq < MaxReqs
  /\ nReq' = nReq + 1
  /\ toolsCache' = NoCache
  /\ lastDisc' = NoDisc
  /\ NewGlobalClient(AfterClose(mc, openES))
  /\ reqs' = Orphaned(DisconnectInFlight(reqs)) \cup
               {Arrival(nReq + 1, TRUE)}
  /\ UNCHANGED <<now, ticks, last, opensSSE, clientVars>>

\* MCPClient.initialize as the awaiting handler sees it: the tools are
\* stored on the client; with the supergateway, line 114 then reads the
\* supergatewayClient a disconnect() has set to null, which throws, and the
\* catch returns [].
InitializeReturns(r, ts, viaSupergateway) ==
  IF r.dc /\ viaSupergateway THEN <<>> ELSE ts

\* initializeMCPClient resolves for a suspended GET (lines 31-45, 85-109)
DiscoveryDone ==
  \* the supergateway path is taken only on an endpoint that skips connectSSE
  \E r \in reqs, ts \in DiscoveryResults, viaSupergateway \in {FALSE, ~opensSSE} :
    LET fresh == InitializeReturns(r, ts, viaSupergateway)
        m == IF r.mine THEN [mc EXCEPT !.tools = ts] ELSE mc
        rest == reqs \ {r}
    IN /\ IF Len(fresh) > 0
          THEN /\ toolsCache' = CacheEntry(fresh, now)
               /\ lastDisc' = [valid |-> TRUE, tools |-> fresh, at |-> now]
               /\ last' = Response(fresh, FALSE, "fresh", 0)
               /\ mc' = m /\ reqs' = rest
               /\ UNCHANGED openES
          ELSE IF r.phase = "get"
          THEN /\ last' = Response(<<>>, FALSE, "empty", 0)
               /\ mc' = m /\ reqs' = rest
               /\ UNCHANGED <<toolsCache, lastDisc, openES>>
          ELSE /\ GetFromCache(r, m, rest)
               /\ UNCHANGED lastDisc
       /\ UNCHANGED <<now, ticks, nReq, opensSSE, clientVars>>

\* DELETE, lines 167-180
Delete ==
  /\ nReq < MaxReqs
  /\ nReq' = nReq + 1
  /\ mc' = Disconnected(mc)
  /\ openES' = AfterClose(mc, openES)
  /\ reqs' = DisconnectInFlight(reqs)
  /\ toolsCache' = NoCache
  /\ lastDisc' = NoDisc
  /\ last' = [NoLast EXCEPT !.kind = "DELETE"]
  /\ UNCHANGED <<now, ticks, opensSSE, clientVars>>

\* Date.now() moves on, by a millisecond or by the cache duration
Tick ==
  /\ ticks < MaxTicks
  /\ \E d \in {1, CACHE_DURATION} : now' = now + d
  /\ ticks' = ticks + 1
  /\ UNCHANGED <<toolsCache, nReq, mc, reqs, lastDisc, last, openES, opensSSE, clientVars>>

\* What mcpClient.callTool resolves to: a ToolResult, of a success or of a
\* failure (it never rejects).
CallToolResults ==
  {ToolResult(<<TextBlock("hello")>>, FALSE), TextResult("Tool execution timeout", TRUE)}

\* executeMCPTool (mcp-client.ts 498-504): throws without a global client,
\* else returns what its callTool returns.
ExecuteMCPTool ==
  /\ nReq < MaxReqs
  /\ nReq' = nReq + 1
  /\ op' = "executeMCPTool"
  /\ IF ~mc.exists
     THEN ret' = Rejected("MCP client not initialized")
     ELSE \E r \in CallToolResults : ret' = ResolvedResult(r)
  /\ UNCHANGED <<pc, client, httpLog, sess, toolsCache, now, ticks, mc, reqs, lastDisc, last,
                 openES, opensSSE>>

RouteInit == ClientIdle /\ client = NewClient /\ RouteIdle /\ opensSSE \in BOOLEAN

RouteNext ==
  \/ Get
  \/ GetRefresh
  \/ DiscoveryDone
  \/ Delete
  \/ ExecuteMCPTool
  \/ Tick

SpecRoute == RouteInit /\ [][RouteNext]_vars

\* ------------------------------------------------ disconnect at any moment
\* MCPClient.disconnect (mcp-client.ts 453-464) with
\* MCPSupergatewayClient.disconnect (part_002 721-729): the latter kills
\* this.process, which only startSupergateway assigns and nothing calls; the
\* mcp-remote subprocesses are locals of their promise executors.
DisconnectClient(c) ==
  [c EXCEPT !.sg = FALSE, !.sgInitialized = FALSE, !.sessionActive = FALSE,
            !.sgTools = <<>>, !.eventSource = "none", !.connected = FALSE,
            !.tools = <<>>]

ClientDisconnect ==
  /\ client' = DisconnectClient(client)
  /\ UNCHANGED <<op, pc, httpLog, sess, ret, routeVars>>

DisconnectNext == Next \/ ClientDisconnect

SpecDisconnect == Init /\ [][DisconnectNext]_vars

\* ------------------------------------- sessions under a clock that moves on
\* Discovery and supergateway tool execution, with Date.now() advancing
\* between the steps or not.
ClockTick ==
  /\ ticks < MaxTicks
  /\ now' = now + 1 /\ ticks' = ticks + 1
  /\ UNCHANGED <<toolsCache, nReq, mc, reqs, lastDisc, last, openES, opensSSE, clientVars>>

IdsNext ==
  \/ StartDiscoverSub
  \/ DiscTimeoutFires
  \/ DiscStdoutData
  \/ DiscProcessExit
  \/ DiscProcessError
  \/ StartExecSub
  \/ ExecTimeoutFires
  \/ ExecStdoutData
  \/ ExecProcessExit
  \/ ExecProcessError
  \/ StartDiscoverDirect
  \/ DirectToolsResponse
  \/ InitializeResponse
  \/ SeparateToolsResponse
  \/ ClockTick

SpecIds == Init /\ [][IdsNext]_vars

\* =================================================================== claims
IsToolResult(r) ==
  /\ r.isError \in BOOLEAN
  /\ \A i \in 1..Len(r.content) : r.content[i].type \in {"text", "image", "resource"}

\* C1: MCPClient.callTool never rejects, and once its transports are done
\* (the direct call returned, or the proxy's subprocess invocation is
\* `resolved` by a response, the timeout, the close or the error event) it
\* has resolved to a ToolResult.
C1_CallToolAlwaysResolves ==
  op = "callTool" =>
    /\ ret.st # "rejected"
    /\ (pc = "done" \/ sess.responded) => (ret.st = "resolved" /\ IsToolResult(ret.result))

\* a direct failure (non-2xx) followed by a proxy failure (spawn error event)
C1_Witness ==
  /\ op = "callTool" /\ pc = "done"
  /\ httpLog[1].resp.kind = "status"
  /\ sess.kind = "proxy" /\ sess.doneBy = "error"
  /\ ret.st = "resolved" /\ ret.result.isError

\* C2: in every subprocess invocation the first write to stdin is the
\* initialize request, and every later write (tools/list, tools/call) comes
\* after a stdout message whose result.protocolVersion is present.
C2_OperationAfterInitialize ==
  sess.kind # "none" =>
    /\ Len(sess.stdinW) >= 1
    /\ sess.stdinW[1].method = "initialize"
    /\ \A i \in 2..Len(sess.stdinW) :
         /\ sess.stdinW[i].method = (IF sess.kind = "disc" THEN "tools/list" ELSE "tools/call")
         /\ sess.pvAt # 0
         /\ sess.pvAt <= sess.stdinW[i].after

C2_Witness ==
  /\ sess.kind = "proxy"
  /\ Len(sess.stdinW) = 2 /\ sess.stdinW[2].method = "tools/call"
  /\ sess.pvAt = 2

\* C3: when the remote answers the direct tools/call with a JSON-RPC error
\* carrying message M, callTool resolves to exactly
\* {content: [text "Tool execution error: " + M], isError: true}.
C3_ErrorResultReturned ==
  (/\ op = "callTool" /\ pc = "done"
   /\ httpLog[1].resp.kind = "msg"
   /\ httpLog[1].resp.msg.hasError /\ httpLog[1].resp.msg.errMsg # "")
  => ret = ResolvedResult(TextResult("Tool execution error: " \o httpLog[1].resp.msg.errMsg, TRUE))

\* C4: when the tools/call response carries result.content = [text E],
\* callTool resolves to {content: [text E], isError: false}, whether the
\* Direct Transport or the proxy's subprocess served the call.
EchoOf(m) == m.parses /\ m.res = "obj" /\ m.hasContent /\ Len(m.content) = 1
C4_RoundTrip ==
  (op = "callTool" /\ pc = "done") =>
    /\ (httpLog[1].resp.kind = "msg" /\ EchoOf(httpLog[1].resp.msg))
         => ret = ResolvedResult(ToolResult(<<TextBlock(httpLog[1].resp.msg.content[1].text)>>, FALSE))
    /\ (sess.kind = "proxy" /\ sess.doneBy = "response" /\ EchoOf(sess.stdout[Len(sess.stdout)]))
         => ret = ResolvedResult(ToolResult(
                    <<TextBlock(sess.stdout[Len(sess.stdout)].content[1].text)>>, FALSE))

\* C5: a tools/list response holding N descriptors is returned by discovery
\* as N Tools in the same order, each with the descriptor's name, the
\* description or 'No description available', the inputSchema or the empty
\* object schema.
MapsDescriptors(ts, out) ==
  /\ Len(out) = Len(ts)
  /\ \A i \in 1..Len(ts) :
       /\ out[i].name = ts[i].name
       /\ out[i].description =
            (IF ts[i].hasDesc THEN ts[i].description ELSE "No description available")
       /\ out[i].inputSchema =
            (IF ts[i].hasSchema THEN ts[i].inputSchema
             ELSE [type |-> "object", properties |-> {}, required |-> <<>>])

ListedTools(e) == e.method = "tools/list" /\ e.resp.kind = "msg" /\ e.resp.msg.res = "obj"
                    /\ e.resp.msg.hasTools

C5_DiscoveryMapsTools ==
  /\ (op = "discoverDirect" /\ pc = "done" /\ ListedTools(httpLog[Len(httpLog)]))
       => (ret.st = "resolved"
           /\ MapsDescriptors(httpLog[Len(httpLog)].resp.msg.tools, ret.tools))
  /\ (op = "discoverSub" /\ sess.doneBy = "response")
       => (ret.st = "resolved" /\ MapsDescriptors(sess.lastList, ret.tools))

\* the subprocess answered tools/list with [fetch (no description), search
\* (no inputSchema)]
C5_Witness ==
  /\ op = "discoverSub" /\ sess.doneBy = "response"
  /\ sess.lastList = <<dFetch, dSearch>>
  /\ Len(ret.tools) = 2
  /\ ret.tools[1].description = "No description available"
  /\ ret.tools[2].inputSchema = [type |-> "object", properties |-> {}, required |-> <<>>]

\* C6: when the first direct tools/list is answered by an error containing
\* "not initialized", the next request is initialize; when the initialize
\* response declares no tools in capabilities a second tools/list follows,
\* and the tools of its response are returned, mapped with the defaults.
NotInitialized(e) ==
  e.resp.kind = "msg" /\ e.resp.msg.hasError /\ Includes(e.resp.msg.errMsg, "not initialized")
NoToolsDeclared(e) ==
  e.resp.kind = "msg" /\ (~e.resp.msg.hasCaps \/ e.resp.msg.caps = <<>>)

C6_InitializeBeforeRetry ==
  (op = "discoverDirect" /\ NotInitialized(httpLog[1])) =>
    /\ Len(httpLog) \in 2..3
    /\ httpLog[2].method = "initialize"
    /\ NoToolsDeclared(httpLog[2]) =>
         /\ Len(httpLog) = 3
         /\ httpLog[3].method = "tools/list"
         /\ (pc = "done" /\ ListedTools(httpLog[3]))
              => (ret.st = "resolved" /\ MapsDescriptors(httpLog[3].resp.msg.tools, ret.tools))

\* the sample scenario of the specification
C6_Witness ==
  /\ op = "discoverDirect" /\ pc = "done"
  /\ Len(httpLog) = 3
  /\ httpLog[1].resp.msg = mErr("Server not initialized")
  /\ httpLog[2].resp.msg = mInit
  /\ httpLog[3].resp.msg = mTools(<<dSearch>>)
  /\ ret.tools = <<[name |-> "search", description |-> "Web search",
                    inputSchema |-> [type |-> "object", properties |-> {}, required |-> <<>>]]>>

\* C10: when the timeout settles a subprocess invocation the process has been
\* killed and the invocation has resolved, to [] for discovery and to an
\* isError ToolResult for tool execution; and no invocation stays pending
\* forever.
TimedOutResult(s) ==
  /\ s.killed
  /\ s.timer = "fired"
  /\ s.promise.st = "resolved"
  /\ IF s.kind = "disc" THEN s.promise.tools = <<>>
     ELSE s.promise.result.isError /\ Len(s.promise.result.content) = 1

C10_TimeoutResolves ==
  /\ [](sess.doneBy = "timeout" => TimedOutResult(sess))
  /\ [](sess.timer = "fired" => sess.promise.st = "resolved")
  /\ (sess.kind # "none") ~> (sess.promise.st # "pending")

\* discovery saw only the initialize response before the timer fired
C10_Witness ==
  /\ op = "discoverSub" /\ sess.doneBy = "timeout"
  /\ sess.initialized /\ sess.nOut = 1
  /\ sess.killed /\ ret = ResolvedTools(<<>>)


\* The last discovery that returned tools did so less than the TTL ago, and
\* no request has cleared the cache since.
WithinTTL == lastDisc.valid /\ (now - lastDisc.at) < CACHE_DURATION

\* C7: a GET without refresh that arrives after a discovery returned tools,
\* before the TTL has run out since, is answered at once with that same list
\* and starts no discovery.
C7_CacheIdempotent ==
  [][(Get /\ WithinTTL) =>
       (last' = [last' EXCEPT !.kind = "GET", !.tools = lastDisc.tools] /\ reqs' = reqs
        /\ mc' = mc)]_vars

C7_Witness ==
  /\ WithinTTL /\ now > lastDisc.at
  /\ last.served = "cache" /\ last.tools = lastDisc.tools /\ Len(last.tools) = 2

\* C8 (as amended): the cache entry is served only while its age is at most
\* the TTL and its list is non-empty.
C8_ServedOnlyWhenFresh ==
  last.served = "cache" => (last.age <= CACHE_DURATION /\ Len(last.tools) > 0)

C8_Witness == last.served = "cache" /\ last.age = CACHE_DURATION /\ last.cached

\* C8 (as stated): the cache entry is served only while its age is strictly
\* below the TTL and its list is non-empty.
C8_ServedOnlyWhenStrictlyFresh ==
  last.served = "cache" => (last.age < CACHE_DURATION /\ Len(last.tools) > 0)

\* The cache has no entry, or an entry without tools, or one older than the TTL.
Stale ==
  \/ ~toolsCache.present
  \/ Len(toolsCache.tools) = 0
  \/ (now - toolsCache.lastUpdated) > CACHE_DURATION

\* C9: a GET without refresh that finds no cache entry, an empty one or one
\* older than the TTL starts a discovery (a new client whose initialize() it
\* awaits) before it answers.
C9_StaleTriggersDiscovery ==
  [][(Get /\ Stale) => (reqs' # reqs /\ last' = last)]_vars

\* A response of the Direct Transport discovery that yields tools: a
\* tools/list result with tools, or an initialize result declaring tools.
YieldsTools(e) ==
  /\ e.resp.kind = "msg" /\ e.resp.msg.res # "none"
  /\ \/ e.method = "tools/list" /\ e.resp.msg.hasTools
     \/ e.method = "initialize" /\ e.resp.msg.hasCaps /\ Len(e.resp.msg.caps) > 0

\* C11: discovery (MCPClient.initialize, as initializeMCPClient returns it)
\* never rejects; once done it has resolved to a tool list, which is []
\* whenever no step yielded tools: no subprocess response with tools, no
\* HTTP response with tools.
C11_DiscoveryNeverRaises ==
  op \in {"discoverSub", "discoverDirect"} =>
    /\ ret.st # "rejected"
    /\ pc = "done" =>
         /\ ret.st = "resolved"
         /\ (op = "discoverSub" /\ sess.doneBy # "response") => ret.tools = <<>>
         /\ (op = "discoverDirect" /\ \A i \in 1..Len(httpLog) : ~YieldsTools(httpLog[i]))
              => ret.tools = <<>>

\* the subprocess could not be spawned: the 'error' event rejects the
\* invocation and initialize still returns []
C11_Witness ==
  /\ op = "discoverSub" /\ pc = "done"
  /\ sess.doneBy = "error" /\ sess.promise.st = "rejected"
  /\ ret = ResolvedTools(<<>>)

\* C12: executeMCPTool, called in any state of the module, resolves to a
\* ToolResult and never rejects.
C12_ExecuteAlwaysResolves ==
  op = "executeMCPTool" => (ret.st = "resolved" /\ IsToolResult(ret.result))

\* The direct tools/call returned a ToolResult: the first data line of the
\* response parsed and carried an error or a result.
DirectReturned(e) ==
  e.method = "tools/call" /\ e.resp.kind = "msg"
    /\ (e.resp.msg.hasError \/ e.resp.msg.res # "none")

\* C13: whenever executeToolDirectly returned a ToolResult, whatever its
\* isError, callTool has returned that result and no subprocess was spawned.
C13_FallbackOnlyOnThrow ==
  (op = "callTool" /\ httpLog # <<>> /\ DirectReturned(httpLog[1])) =>
    /\ sess.kind = "none"
    /\ pc = "done" /\ ret.st = "resolved"
    /\ ret.result.isError = httpLog[1].resp.msg.hasError

\* The subprocess of an invocation is released: kill() has signalled it, or
\* it has exited, or it could not be spawned (the 'error' event); and the
\* timeout timer is not armed.
Released(s) == (s.killed \/ s.proc \in {"exited", "failed"}) /\ s.timer # "armed"

\* C14: whenever a subprocess invocation has settled (by a response, the
\* timeout, the exit or close of the process, its 'error' event, also after
\* output that did not parse), its subprocess is released.
C14_ReleasedWhenSettled ==
  (sess.kind # "none" /\ sess.promise.st # "pending") => Released(sess)

\* the proxy's process printed a line that does not parse and closed
C14_Witness ==
  /\ sess.kind = "proxy" /\ sess.stdout = <<mBad>>
  /\ sess.doneBy = "exit" /\ sess.timer = "cleared" /\ ~sess.killed

\* C15: within one session (one subprocess, one Direct Transport discovery)
\* no two requests carry the same id.
C15_RequestIdsDistinct ==
  /\ \A i, j \in 1..Len(sess.stdinW) :
       i # j => sess.stdinW[i].id # sess.stdinW[j].id
  /\ (op = "discoverDirect") =>
       \A i, j \in 1..Len(httpLog) : i # j => httpLog[i].id # httpLog[j].id

\* A subprocess is live: spawned, not exited, and kill() has not signalled it.
Live(s) == s.kind # "none" /\ s.proc = "running" /\ ~s.killed

\* C16: when disconnect() returns, no subprocess spawned for the client is
\* live, one of an invocation still under way included, and the client's
\* tool list is empty.
C16_DisconnectReleases ==
  [][ClientDisconnect => (~Live(sess') /\ client'.tools = <<>>)]_vars

\* The writes of invocation s that carry method `method`.
WritesOf(s, method) == {i \in 1..Len(s.stdinW) : s.stdinW[i].method = method}

\* C17: an invocation has one subprocess, and writes to its stdin the
\* initialize request once and the operation request at most once, whatever
\* the subprocess prints.
C17_AtMostTwoWrites ==
  sess.kind # "none" =>
    /\ sess.proc # "none"
    /\ Len(sess.stdinW) <= 2
    /\ Cardinality(WritesOf(sess, "initialize")) = 1
    /\ Cardinality(WritesOf(sess, IF sess.kind = "disc" THEN "tools/list" ELSE "tools/call")) <= 1

\* the subprocess printed the initialize response twice
C17_Witness ==
  /\ sess.kind = "proxy" /\ sess.stdout = <<mInit, mInit>>
  /\ Len(sess.stdinW) = 2

\* C18: the promise of a subprocess invocation is settled by one call of
\* resolve or reject, that of the first event to arrive; every later event
\* leaves the outcome as it is and calls neither again.
C18_FirstEventWins ==
  /\ [](sess.nResolve = (IF sess.promise.st = "pending" THEN 0 ELSE 1))
  /\ [][sess.promise.st # "pending" =>
          (sess'.promise = sess.promise /\ sess'.doneBy = sess.doneBy)]_vars

\* the response settled the tool call, then the killed process exited
C18_Witness ==
  /\ sess.kind = "exec" /\ sess.doneBy = "response" /\ sess.proc = "exited"
  /\ sess.promise.st = "resolved" /\ ~sess.promise.result.isError
  /\ sess.nResolve = 1

\* C19: an invocation whose promise is settled (by timeout, exit, error or
\* the terminal response) writes nothing more to the subprocess input stream,
\* whatever arrives on the output stream afterwards.
C19_DoneWritesNothing ==
  [][(sess.kind # "none" /\ sess.promise.st # "pending" /\ sess'.kind = sess.kind
        /\ sess'.nOut > sess.nOut)
       => sess'.stdinW = sess.stdinW]_vars

\* C20: a process exit or error that settles the invocation settles it as the
\* timeout does: [] for discovery, a ToolResult with isError = TRUE for tool
\* execution, whatever the exit code and the output received so far.
C20_ExitResolvesLikeTimeout ==
  sess.doneBy \in {"exit", "error"} =>
    IF sess.kind = "disc" THEN sess.promise = ResolvedTools(<<>>)
    ELSE sess.promise.st = "resolved" /\ sess.promise.result.isError


\* The messages that answer a pending tools/call: a result other than the
\* initialize result, or an error response.
AnswersCall(m) == m.parses /\ ((m.res # "none" /\ ~m.pv) \/ m.hasError)

\* C21: a tool execution over a subprocess is ended by an output message only
\* when that message answers the tools/call request; a message without a
\* result (a notification, a server request) or a repeated initialize result
\* leaves the invocation pending.
C21_TerminalOnlyOnMatchingResult ==
  [][(sess.kind \in {"exec", "proxy"} /\ sess.promise.st = "pending"
        /\ sess'.kind = sess.kind /\ sess'.doneBy = "response")
       => \E m \in CallMsgs \cup ProxyMsgs :
            /\ AnswersCall(m)
            /\ sess'.promise = ResolvedResult(IF sess.kind = "exec" THEN ExecResponse(m)
                                              ELSE ProxyResponse(m))]_vars


\* the invocation as the stdout handler leaves it after message m
AfterStdout(s, m) ==
  IF s.kind = "exec" THEN ExecStdout(Deliver(s, m), m) ELSE ProxyStdout(Deliver(s, m), m)

\* C22: in both subprocess execution paths an error response to the
\* tools/call, delivered after initialization, resolves the invocation to a
\* ToolResult with isError = TRUE whose text holds the error's message (or the
\* generic fallback).
C22_ErrorResponseResolves ==
  (sess.kind \in {"exec", "proxy"} /\ sess.initialized /\ sess.promise.st = "pending"
     /\ sess.proc = "running")
    => \A m \in {x \in CallMsgs \cup ProxyMsgs : x.parses /\ x.hasError} :
         LET p == AfterStdout(sess, m).promise
         IN /\ p.st = "resolved" /\ p.result.isError
            /\ Len(p.result.content) = 1
            /\ Includes(p.result.content[1].text, ErrorMessageOr(m))


\* C23: one discovery uses one transport.  On an endpoint of the stateful
\* pattern it spawns a subprocess and sends no Direct Transport request (and
\* opens no EventSource); on any other endpoint it sends Direct Transport
\* requests only and spawns no subprocess, zero tools included.
C23_OneTransportPerDiscovery ==
  /\ op = "discoverSub" => (httpLog = <<>> /\ client.eventSource = "none")
  /\ op = "discoverDirect" => (sess.kind = "none" /\ ~client.sg /\ Len(httpLog) >= 1)

\* three direct requests ended with zero tools and nothing was spawned
C23_Witness ==
  /\ op = "discoverDirect" /\ pc = "done" /\ ret = ResolvedTools(<<>>)
  /\ Len(httpLog) = 3 /\ sess = NoSess


\* the initialize response of a direct discovery has been decoded
InitDecoded ==
  /\ op = "discoverDirect" /\ Len(httpLog) >= 2
  /\ httpLog[2].method = "initialize" /\ httpLog[2].resp.kind = "msg"
\* its result.capabilities.tools is an object with at least one key
DeclaresTools(m) == m.res # "none" /\ m.hasCaps /\ Len(m.caps) > 0

\* C24: when the initialize response of a direct discovery declares K tools
\* in result.capabilities.tools, discovery returns K Tool values, one per key,
\* named by the key, with the per-key description / inputSchema or the
\* defaults, and sends no second tools/list; when capabilities.tools is absent
\* or empty the second tools/list is sent.
C24_CapabilitiesBranch ==
  InitDecoded =>
    LET m == httpLog[2].resp.msg
    IN IF DeclaresTools(m)
       THEN /\ pc = "done" /\ Len(httpLog) = 2
            /\ ret.st = "resolved" /\ Len(ret.tools) = Len(m.caps)
            /\ \A i \in 1..Len(m.caps) :
                 /\ ret.tools[i].name = m.caps[i].name
                 /\ ret.tools[i].description =
                      (IF m.caps[i].hasDesc THEN m.caps[i].description
                       ELSE "No description available")
                 /\ ret.tools[i].inputSchema =
                      (IF m.caps[i].hasSchema THEN m.caps[i].inputSchema
                       ELSE [type |-> "object", properties |-> {}, required |-> <<>>])
       ELSE /\ Len(httpLog) = 3 /\ httpLog[3].method = "tools/list"

\* two declared tools, one of them without a description
C24_Witness ==
  /\ InitDecoded /\ pc = "done" /\ Len(httpLog) = 2
  /\ ret = ResolvedTools(<<Tool("search", "Web search", DefaultSchema),
                           Tool("fetch", DefaultDescription, QuerySchema)>>)


\* callTool returned what the Direct Transport decoded
DirectReturnedResult ==
  /\ op = "callTool" /\ pc = "done" /\ sess.kind = "none" /\ Len(httpLog) = 1
  /\ ret.st = "resolved" /\ ~ret.result.isError

\* C25: the decoded value of a Direct Transport tool execution is that of the
\* first "data: " line of the body alone; later "data: " lines have no
\* influence on it.
C25_FirstDataLineOnly ==
  DirectReturnedResult =>
    /\ httpLog[1].resp.kind = "msg"
    /\ ret.result = ExecLines(<<DataLine(httpLog[1].resp.msg)>>, 1).result


\* C26: a discovery or tool call that the Direct Transport serves resolves
\* eventually, whether or not the endpoint ever answers the HTTP request.
C26_DirectEventuallyResolves ==
  (op \in {"discoverDirect", "callTool"}) ~> (ret.st = "resolved")


\* C27: once initialize() over the Subprocess Transport has returned a
\* non-empty tool list, both the supergateway client and the MCPClient report
\* isConnected() = TRUE.
C27_ConnectedAfterDiscovery ==
  (op = "discoverSub" /\ pc = "done" /\ ret.st = "resolved" /\ ret.tools # <<>>)
    => (SgIsConnected(client) /\ client.connected)


\* C28: at most one EventSource opened by the module is open at any time:
\* a client that initializeMCPClient replaces has had its EventSource closed.
C28_AtMostOneEventSource == openES <= 1


\* C29: a disconnect is not undone by the discovery it interrupted.  When the
\* initialize() that was under way on the disconnected client completes, the
\* client still holds no tools and the tool cache is left as it was.
C29_DisconnectNotUndone ==
  [][\A r \in reqs :
       (r.dc /\ r.mine /\ r \notin reqs' /\ nReq' = nReq)
         => (mc'.tools = <<>> /\ toolsCache' = toolsCache)]_vars


\* C30: whenever no GET is suspended and the tool cache holds an entry, the
\* entry's tool list is the one the current global client holds.
C30_CacheMatchesClient ==
  (reqs = {} /\ toolsCache.present) => toolsCache.tools = mc.tools

============================================================================
